---- MODULE Spec2Model ----
(***************************************************************************)
(* The MovieLens example notebook (docs/movielens/movielens.ipynb): the    *)
(* path setup cell, the four job definitions, build.run(), pipeline.run()  *)
(* and the visualization cell, executed top to bottom as a linear script.  *)
(* Paths are sequences of components; an absolute path starts with "/".    *)
(***************************************************************************)
EXTENDS Integers, Sequences, FiniteSets, TLC

(* ------------------------------ bounds --------------------------------- *)
MaxVocab == 2
MaxMetric == 2
MaxEvals == 2

\* working directories the notebook may be started in
Cwds == { <<"/", "home", "user">>, <<"/", "average">> }

(* --------------------------- path setup cell --------------------------- *)
Join(p, name) == Append(p, name)

getcwd(c) == c

dataset_path(c) == Join(getcwd(c), "ml-20m")
path_ratings(c) == Join(dataset_path(c), "ratings.csv")
path_root == <<"average">>
path_model == Join(path_root, "model")
path_data == Join(path_root, "data")
path_variables == Join(path_root, "variables")
PathPredictionsOverSavedModel == Join(path_root, "saved_model")
path_predictions == Join(path_root, "predictions.parquet.snappy")
path_saved_model == Join(path_root, "saved_model")
path_mapping == Join(path_data, "mapping.txt")
path_train == Join(path_data, "train.tfrecord.gz")
path_eval == Join(path_data, "eval.tfrecord.gz")
path_test == Join(path_data, "test.tfrecord.gz")
max_steps == 100000

\* the directories the setup cell creates, in order
SetupDirs == << path_root, path_model, path_data >>

\* a relative path is resolved against the working directory when it is opened
IsAbsolute(p) == Len(p) > 0 /\ p[1] = "/"
Resolve(c, p) == IF IsAbsolute(p) THEN p ELSE c \o p

IsPrefix(p, q) == Len(p) <= Len(q) /\ SubSeq(q, 1, Len(p)) = p

(* --------------------------- job definitions --------------------------- *)
NoJob == [job |-> "none", k |-> 0]
Job(name) == [job |-> name, k |-> 0]

\* build = movielens.jobs.BuildRecords(...)
build(c) ==
    [ job          |-> Job("build"),
      path_ratings |-> path_ratings(c),
      path_mapping |-> path_mapping,
      path_train   |-> path_train,
      path_eval    |-> path_eval,
      path_test    |-> path_test ]

\* train = dpr.jobs.Trainer(...): the arguments the claims are about
BestCheckpointMetric == "triplet_precision"
BestCheckpointModeDecrease == "decrease"
BestCheckpointMode == "increase"

\* keep_checkpoint_max=None: 0 stands for None (every checkpoint is kept)
keep_checkpoint_max == 0
save_checkpoints_steps == 300

\* EarlyStoppingHookFactory(...)
EarlyStoppingMode == "increase"
run_every_steps == 300
PatienceOfOneRun == run_every_steps
max_steps_without_improvement == 1000
min_steps == 5000
final_step == max_steps

\* steps at which the time-throttled evaluator may evaluate the checkpoint
\* just saved (EvalSpec(start_delay_secs=30, throttle_secs=30))
EvalTicks == { 300, 5100, 6000, 6300 }

exporters == << "BestCheckpoint", "SaveVariables", "SavedModel" >>
VariableNamesEmbeddingsOnly == << "embeddings" >>
variable_names == << "biases", "embeddings" >>

train ==
    [ job              |-> Job("train"),
      path_model       |-> path_model,
      train_input      |-> path_train,
      eval_input       |-> path_eval,
      path_variables   |-> path_variables,
      path_saved_model |-> path_saved_model ]

\* predict = movielens.jobs.Predict(...)
predict ==
    [ job              |-> Job("predict"),
      path_saved_model |-> path_saved_model,
      path_predictions |-> path_predictions,
      input            |-> path_test ]

\* evaluate = [movielens.jobs.Evaluate(..., k=k) for k in [10, 20, 50]]
KsReordered == << 10, 50, 20 >>
Ks == << 10, 20, 50 >>
Evaluate(k) ==
    [ job              |-> [job |-> "evaluate", k |-> k],
      path_predictions |-> path_predictions,
      path_embeddings  |-> Join(path_variables, "embeddings"),
      path_biases      |-> Join(path_variables, "biases") ]
evaluate == [ i \in 1..Len(Ks) |-> Evaluate(Ks[i]) ]

\* pipeline = dpr.jobs.Pipeline([train, predict] + evaluate)
PipelineEvaluateFirst == [ i \in 1..Len(evaluate) |-> evaluate[i].job ] \o << train.job, predict.job >>
pipeline == << train.job, predict.job >> \o [ i \in 1..Len(evaluate) |-> evaluate[i].job ]

\* the visualization cell's hard-coded paths
VizEmbeddingsUnderModel == << "average", "model", "embeddings" >>
viz_embeddings == << "average", "variables", "embeddings" >>
viz_mapping == << "average", "data", "mapping.txt" >>

(* ------------------------------ cells ---------------------------------- *)
CellsTrainerFirst == << "paths", "def_build", "def_train", "run_build", "def_predict",
                       "def_evaluate", "def_pipeline", "run_pipeline", "viz", "end" >>
Cells == << "paths", "def_build", "run_build", "def_train", "def_predict",
            "def_evaluate", "def_pipeline", "run_pipeline", "viz", "end" >>

CellIndex(name) == CHOOSE i \in 1..Len(Cells) : Cells[i] = name


\* what each definition cell reads while it is evaluated: only the Trainer
\* cell does, through its two dpr.vocab.size(path_mapping) arguments
DefinitionReadsEagerPredict(cell) ==
    IF cell = "def_train" THEN { path_mapping }
    ELSE IF cell = "def_predict" THEN { path_saved_model }
    ELSE {}
DefinitionReads(cell) ==
    IF cell = "def_train" THEN { path_mapping } ELSE {}

\* the job a definition cell defines
DefinedBy(cell) ==
    IF cell = "def_build" THEN "build"
    ELSE IF cell = "def_train" THEN "train"
    ELSE IF cell = "def_predict" THEN "predict"
    ELSE IF cell = "def_evaluate" THEN "evaluate"
    ELSE "pipeline"

(* ------------------------------ state ---------------------------------- *)
VARIABLES
    pc,          \* index of the cell being executed
    cwd,         \* os.getcwd()
    vocab,       \* number of distinct movies of the ratings file
    mappingLines,\* lines of the mapping file written so far
    dirs,        \* directories created
    reads,       \* file reads performed: [path, by, during]
    writes,      \* file writes performed: [path, by, during]
    defined,     \* job objects constructed so far
    vocab_pred,  \* vocab_size given to AverageModel
    vocab_loss,  \* vocab_size given to Loss
    active,      \* the job whose run() is executing, or NoJob
    phase,       \* position inside the running job
    started,     \* jobs in the order their run() was entered
    finished,    \* jobs in the order their run() returned
    failed,      \* the job or cell that raised, or NoJob
    pipeIdx,     \* number of pipeline jobs entered by pipeline.run()
    step,        \* global step of the training
    stopped_at,  \* number of steps run when the training loop ended, -1 before
    evals,       \* evaluation results of the run: sequence of [step, val]
    checkpoints, \* steps of the checkpoints present under path_model
    ckpt_state,  \* step of the checkpoint the checkpoint state file names
    exportIdx,   \* number of exporters already called
    exported,    \* checkpoint step each exported artifact was taken from
    metricsLog,  \* the k of each metrics report, in order
    movies,      \* the distinct movie ids of the ratings file, in vocabulary order
    mapp,        \* visualization cell: movie id -> line index
    inversed_map,\* visualization cell: line index -> movie id
    ntotal,      \* visualization cell: number of embeddings added to the index
    knn          \* the last knn_query call: [k, I, D, result], or NoQuery

vars == << pc, cwd, vocab, mappingLines, dirs, reads, writes, defined, vocab_pred,
           vocab_loss, active, phase, started, finished, failed, pipeIdx, step,
           stopped_at, evals, checkpoints, ckpt_state, exportIdx, exported,
           metricsLog, movies, mapp, inversed_map, ntotal, knn >>

fsVars == << mappingLines, dirs, writes >>
vizVars == << mapp, inversed_map, ntotal, knn >>
trainVars == << step, stopped_at, evals, checkpoints, ckpt_state, exportIdx, exported >>
defVars == << defined, vocab_pred, vocab_loss >>
runVars == << active, phase, started, finished, pipeIdx >>

Range(s) == { s[i] : i \in 1..Len(s) }
Min(a, b) == IF a < b THEN a ELSE b

Artifacts == { "biases", "embeddings", "saved_model" }

\* the vocabulary of the sample dataset with n movies
SampleIds == << 1, 12, 2, 20 >>
SampleMovies(n) == SubSeq(SampleIds, 1, n)

NoQuery == [ k |-> -1, I |-> << >>, D |-> << >>, result |-> << >> ]

Init ==
    /\ pc = 1
    /\ cwd \in Cwds
    /\ vocab \in 1..MaxVocab
    /\ mappingLines = 0
    /\ dirs = {}
    /\ reads = {}
    /\ writes = {}
    /\ defined = {}
    /\ vocab_pred = -1
    /\ vocab_loss = -1
    /\ active = NoJob
    /\ phase = "idle"
    /\ started = << >>
    /\ finished = << >>
    /\ failed = NoJob
    /\ pipeIdx = 0
    /\ step = 0
    /\ stopped_at = -1
    /\ evals = << >>
    /\ checkpoints = {}
    /\ ckpt_state = -1
    /\ exportIdx = 0
    /\ exported = [ a \in Artifacts |-> -1 ]
    /\ metricsLog = << >>
    /\ movies = SampleMovies(vocab)
    /\ mapp = << >>
    /\ inversed_map = << >>
    /\ ntotal = 0
    /\ knn = NoQuery

(* ---------------------------- file system ------------------------------ *)
\* the ratings and movies tables of the downloaded dataset exist beforehand
Inputs == { path_ratings(cwd), Join(dataset_path(cwd), "movies.csv") }

Exists(p) ==
    \/ Resolve(cwd, p) \in Inputs
    \/ \E w \in writes : w.path = Resolve(cwd, p)

ReadRec(p, by, during) == [ path |-> Resolve(cwd, p), by |-> by, during |-> during ]
WriteRec(p, by) == [ path |-> Resolve(cwd, p), by |-> by, during |-> "run" ]

\* an exception nobody catches ends the execution
KeepGoing == TRUE
Running == failed = NoJob
AtCell(name) == Running /\ pc = CellIndex(name)


(* ------------------------- cells: definitions -------------------------- *)
\* dpr.io.Path(...).mkdir(exist_ok=True), three times
CellPaths ==
    /\ AtCell("paths")
    /\ dirs' = dirs \cup { Resolve(cwd, SetupDirs[i]) : i \in 1..Len(SetupDirs) }
    /\ pc' = pc + 1
    /\ UNCHANGED << cwd, vocab, movies, vizVars, mappingLines, reads, writes, metricsLog, failed >>
    /\ UNCHANGED << defVars, runVars, trainVars >>

\* dpr.vocab.size(path): the number of lines of the file
vocab_size(p) == IF Resolve(cwd, p) = Resolve(cwd, path_mapping) THEN mappingLines ELSE 0

\* a definition cell: the constructors keep their arguments and do nothing
\* else; what is read is what the argument expressions read
DefineCell(cell) ==
    /\ AtCell(cell)
    /\ reads' = reads \cup { ReadRec(p, Job(DefinedBy(cell)), "define") : p \in DefinitionReads(cell) }
    /\ IF \A p \in DefinitionReads(cell) : Exists(p)
       THEN /\ defined' = defined \cup { DefinedBy(cell) }
            /\ pc' = pc + 1
            /\ failed' = failed
            /\ IF cell = "def_train"
               THEN /\ vocab_pred' = vocab_size(path_mapping)
                    /\ vocab_loss' = vocab_size(path_mapping)
               ELSE UNCHANGED << vocab_pred, vocab_loss >>
       ELSE /\ failed' = Job(cell)
            /\ UNCHANGED << pc, defVars >>
    /\ UNCHANGED << cwd, vocab, movies, vizVars, fsVars, metricsLog, runVars, trainVars >>

DefineBuild == DefineCell("def_build")
DefineTrain == DefineCell("def_train")
DefinePredict == DefineCell("def_predict")
DefineEvaluate == DefineCell("def_evaluate")
DefinePipeline == DefineCell("def_pipeline")

(* ------------------------------ running -------------------------------- *)
StartJob(j) ==
    /\ active' = j
    /\ phase' = "start"
    /\ started' = Append(started, j)

\* build.run()
RunBuild ==
    /\ AtCell("run_build")
    /\ active = NoJob
    /\ build(cwd).job \notin Range(started)
    /\ StartJob(build(cwd).job)
    /\ UNCHANGED << pc, cwd, vocab, movies, vizVars, fsVars, reads, metricsLog, failed, defVars,
                    finished, pipeIdx, trainVars >>

\* pipeline.run(): for job in jobs: job.run()
PipelineNext ==
    /\ AtCell("run_pipeline")
    /\ active = NoJob
    /\ pipeIdx < Len(pipeline)
    /\ pipeIdx' = pipeIdx + 1
    /\ StartJob(pipeline[pipeIdx + 1])
    /\ UNCHANGED << pc, cwd, vocab, movies, vizVars, fsVars, reads, metricsLog, failed, defVars,
                    finished, trainVars >>

PipelineReturn ==
    /\ AtCell("run_pipeline")
    /\ active = NoJob
    /\ pipeIdx = Len(pipeline)
    /\ pc' = pc + 1
    /\ UNCHANGED << cwd, vocab, movies, vizVars, fsVars, reads, metricsLog, failed, defVars,
                    runVars, trainVars >>

\* run() of the active job returns
Finish ==
    /\ Running
    /\ active # NoJob
    /\ phase = "done"
    /\ finished' = Append(finished, active)
    /\ active' = NoJob
    /\ phase' = "idle"
    /\ pc' = IF pc = CellIndex("run_build") THEN pc + 1 ELSE pc
    /\ UNCHANGED << cwd, vocab, movies, vizVars, fsVars, reads, metricsLog, failed, defVars,
                    started, pipeIdx, trainVars >>

\* the active job raises: nothing in the notebook catches it
Raise ==
    /\ Running
    /\ active # NoJob
    /\ failed' = active
    /\ active' = NoJob
    /\ UNCHANGED << pc, cwd, vocab, movies, vizVars, fsVars, reads, metricsLog, defVars, phase,
                    started, finished, pipeIdx, trainVars >>


(* ---------------------- step 1: BuildRecords.run ----------------------- *)
InJob(j, ph) == Running /\ active = j /\ phase = ph

BuildReadRatings ==
    /\ InJob(build(cwd).job, "start")
    /\ reads' = reads \cup { ReadRec(build(cwd).path_ratings, active, "run") }
    /\ phase' = "mapping"
    /\ UNCHANGED << pc, cwd, vocab, movies, vizVars, fsVars, metricsLog, failed, defVars, active,
                    started, finished, pipeIdx, trainVars >>

\* the vocabulary is written one movie id per line
BuildWriteMapping ==
    /\ InJob(build(cwd).job, "mapping")
    /\ writes' = writes \cup { WriteRec(build(cwd).path_mapping, active) }
    /\ mappingLines' = mappingLines + 1
    /\ phase' = IF mappingLines + 1 >= vocab THEN "records" ELSE "mapping"
    /\ UNCHANGED << pc, cwd, vocab, movies, vizVars, dirs, reads, metricsLog, failed, defVars, active,
                    started, finished, pipeIdx, trainVars >>

BuildWriteRecords ==
    /\ InJob(build(cwd).job, "records")
    /\ writes' = writes \cup { WriteRec(build(cwd).path_train, active),
                               WriteRec(build(cwd).path_eval, active),
                               WriteRec(build(cwd).path_test, active) }
    /\ phase' = "done"
    /\ UNCHANGED << pc, cwd, vocab, movies, vizVars, mappingLines, dirs, reads, metricsLog, failed,
                    defVars, active, started, finished, pipeIdx, trainVars >>

(* ------------------------ step 2: Trainer.run -------------------------- *)
IsBetter(mode, a, b) == IF mode = "increase" THEN a > b ELSE a < b

\* the early stopping test on the evaluation results read so far
RECURSIVE StopScan(_, _, _, _)
StopScan(evs, i, best_val, best_step) ==
    IF i > Len(evs) THEN FALSE
    ELSE IF evs[i].step < min_steps THEN StopScan(evs, i + 1, best_val, best_step)
    ELSE LET better == best_step = -1 \/ IsBetter(EarlyStoppingMode, evs[i].val, best_val)
             bv == IF better THEN evs[i].val ELSE best_val
             bs == IF better THEN evs[i].step ELSE best_step
         IN  IF evs[i].step - bs >= max_steps_without_improvement
             THEN TRUE
             ELSE StopScan(evs, i + 1, bv, bs)

should_stop(evs) == StopScan(evs, 1, 0, -1)

\* RunConfig(keep_checkpoint_max): the checkpoints left after saving one more
Retained(ckpts) ==
    IF keep_checkpoint_max = 0 THEN ckpts
    ELSE { c \in ckpts : Cardinality({ d \in ckpts : d > c }) < keep_checkpoint_max }

\* BestCheckpoint: step of the first evaluation with the best metric
BestStep(evs) ==
    LET i == CHOOSE i \in 1..Len(evs) :
                 /\ \A j \in 1..Len(evs) : ~ IsBetter(BestCheckpointMode, evs[j].val, evs[i].val)
                 /\ \A j \in 1..(i - 1) : evs[j].val # evs[i].val
    IN  evs[i].step

Evaluated(evs, s) == \E i \in 1..Len(evs) : evs[i].step = s

TrainOpen ==
    /\ InJob(train.job, "start")
    /\ reads' = reads \cup { ReadRec(train.train_input, active, "run"),
                             ReadRec(train.eval_input, active, "run") }
    /\ IF Exists(train.train_input) /\ Exists(train.eval_input)
       THEN phase' = "loop" /\ UNCHANGED << failed, active >>
       ELSE failed' = active /\ active' = NoJob /\ UNCHANGED phase
    /\ UNCHANGED << pc, cwd, vocab, movies, vizVars, fsVars, metricsLog, defVars,
                    started, finished, pipeIdx, trainVars >>

\* run_every_steps more steps of the loop, up to max_steps: a checkpoint is
\* saved, maybe evaluated, and the early stopping hook is run
TrainTick ==
    /\ InJob(train.job, "loop")
    /\ LET s1   == Min(((step \div run_every_steps) + 1) * run_every_steps, max_steps)
           save == s1 % save_checkpoints_steps = 0
       IN  \E v \in -1..MaxMetric :
             /\ v >= 0 => save /\ s1 \in EvalTicks /\ Len(evals) < MaxEvals
             /\ LET evals1 == IF v >= 0 THEN Append(evals, [step |-> s1, val |-> v]) ELSE evals
                    stop   == s1 < max_steps /\ should_stop(evals1)
                IN  /\ evals' = evals1
                    /\ checkpoints' = IF save THEN Retained(checkpoints \cup { s1 }) ELSE checkpoints
                    /\ ckpt_state' = IF save THEN s1 ELSE ckpt_state
                    /\ writes' = IF save THEN writes \cup { WriteRec(train.path_model, active) } ELSE writes
                    /\ IF stop
                       THEN stopped_at' = s1 /\ step' = final_step /\ phase' = "final"
                       ELSE IF s1 >= max_steps
                       THEN stopped_at' = s1 /\ step' = s1 /\ phase' = "final"
                       ELSE stopped_at' = stopped_at /\ step' = s1 /\ phase' = phase
    /\ UNCHANGED << pc, cwd, vocab, movies, vizVars, mappingLines, dirs, reads, metricsLog, failed,
                    defVars, active, started, finished, pipeIdx, exportIdx, exported >>

\* the loop has ended: the last checkpoint is saved and evaluated
TrainFinal ==
    /\ InJob(train.job, "final")
    /\ checkpoints' = Retained(checkpoints \cup { step })
    /\ ckpt_state' = step
    /\ writes' = writes \cup { WriteRec(train.path_model, active) }
    /\ IF Evaluated(evals, step)
       THEN evals' = evals
       ELSE \E v \in 0..MaxMetric : evals' = Append(evals, [step |-> step, val |-> v])
    /\ phase' = "export"
    /\ UNCHANGED << pc, cwd, vocab, movies, vizVars, mappingLines, dirs, reads, metricsLog, failed,
                    defVars, active, started, finished, pipeIdx, step, stopped_at,
                    exportIdx, exported >>

\* the exporters are called in the order of the list
TrainExport ==
    /\ InJob(train.job, "export")
    /\ exportIdx < Len(exporters)
    /\ LET e == exporters[exportIdx + 1] IN
         /\ ckpt_state' = IF e = "BestCheckpoint" THEN BestStep(evals) ELSE ckpt_state
         /\ IF e = "BestCheckpoint" \/ ckpt_state \in checkpoints
            THEN /\ exportIdx' = exportIdx + 1
                 /\ phase' = IF exportIdx + 1 = Len(exporters) THEN "done" ELSE phase
                 /\ UNCHANGED << failed, active >>
                 /\ exported' =
                      IF e = "SaveVariables"
                      THEN [ a \in Artifacts |->
                               IF a \in Range(variable_names) THEN ckpt_state ELSE exported[a] ]
                      ELSE IF e = "SavedModel"
                      THEN [ exported EXCEPT !["saved_model"] = ckpt_state ]
                      ELSE exported
                 /\ writes' =
                      IF e = "SaveVariables"
                      THEN writes \cup { WriteRec(Join(train.path_variables, variable_names[i]), active)
                                           : i \in 1..Len(variable_names) }
                      ELSE IF e = "SavedModel"
                      THEN writes \cup { WriteRec(train.path_saved_model, active) }
                      ELSE writes
            ELSE /\ failed' = active
                 /\ active' = NoJob
                 /\ UNCHANGED << exportIdx, phase, exported, writes >>
    /\ UNCHANGED << pc, cwd, vocab, movies, vizVars, mappingLines, dirs, reads, metricsLog,
                    defVars, started, finished, pipeIdx, step, stopped_at, evals,
                    checkpoints >>


(* ------------------------ step 3: Predict.run -------------------------- *)
PredictRun ==
    /\ InJob(predict.job, "start")
    /\ reads' = reads \cup { ReadRec(predict.input, active, "run"),
                             ReadRec(predict.path_saved_model, active, "run") }
    /\ IF Exists(predict.input) /\ Exists(predict.path_saved_model)
       THEN /\ writes' = writes \cup { WriteRec(predict.path_predictions, active) }
            /\ phase' = "done"
            /\ UNCHANGED << failed, active >>
       ELSE /\ failed' = active
            /\ active' = NoJob
            /\ UNCHANGED << writes, phase >>
    /\ UNCHANGED << pc, cwd, vocab, movies, vizVars, mappingLines, dirs, metricsLog, defVars,
                    started, finished, pipeIdx, trainVars >>

(* ------------------------ step 4: Evaluate.run ------------------------- *)
EvaluateOf(j) == evaluate[CHOOSE i \in 1..Len(evaluate) : evaluate[i].job = j]

EvaluateRun ==
    /\ Running
    /\ active.job = "evaluate"
    /\ phase = "start"
    /\ LET e == EvaluateOf(active) IN
         /\ reads' = reads \cup { ReadRec(e.path_predictions, active, "run"),
                                  ReadRec(e.path_embeddings, active, "run"),
                                  ReadRec(e.path_biases, active, "run") }
         /\ IF Exists(e.path_predictions) /\ Exists(e.path_embeddings) /\ Exists(e.path_biases)
            THEN /\ metricsLog' = Append(metricsLog, active.k)
                 /\ phase' = "done"
                 /\ UNCHANGED << failed, active >>
            ELSE /\ failed' = active
                 /\ active' = NoJob
                 /\ UNCHANGED << metricsLog, phase >>
    /\ UNCHANGED << pc, cwd, vocab, movies, vizVars, fsVars, defVars, started, finished, pipeIdx,
                    trainVars >>

(* ------------------------- visualization cell -------------------------- *)
\* the text of a file: the mapping file holds the movie ids written so far,
\* one per line
Digits == << "0", "1", "2", "3", "4", "5", "6", "7", "8", "9" >>

RECURSIVE str(_)
str(n) == IF n < 10 THEN << Digits[n + 1] >> ELSE str(n \div 10) \o << Digits[(n % 10) + 1] >>

RECURSIVE JoinLines(_)
JoinLines(ls) ==
    IF Len(ls) = 0 THEN << >>
    ELSE IF Len(ls) = 1 THEN ls[1]
    ELSE ls[1] \o << "\n" >> \o JoinLines(Tail(ls))

vocab_write(ids) == JoinLines([ i \in 1..Len(ids) |-> str(ids[i]) ])

FileText(p) ==
    IF Resolve(cwd, p) = Resolve(cwd, path_mapping)
    THEN vocab_write(SubSeq(movies, 1, mappingLines))
    ELSE << >>

\* text.split("\n")
RECURSIVE split(_)
split(t) ==
    IF \A i \in 1..Len(t) : t[i] # "\n" THEN << t >>
    ELSE LET i == CHOOSE i \in 1..Len(t) : t[i] = "\n" /\ \A j \in 1..(i - 1) : t[j] # "\n"
         IN  << SubSeq(t, 1, i - 1) >> \o split(SubSeq(t, i + 1, Len(t)))

\* int(s): defined on a non-empty string of digits, ValueError otherwise
IsInt(s) == Len(s) > 0 /\ \A i \in 1..Len(s) : s[i] \in Range(Digits)
DigitValue(c) == CHOOSE d \in 0..9 : Digits[d + 1] = c
RECURSIVE int(_)
int(s) ==
    IF Len(s) = 1 THEN DigitValue(s[1])
    ELSE 10 * int(SubSeq(s, 1, Len(s) - 1)) + DigitValue(s[Len(s)])

\* mapp = {int(movie_id): indice for indice, movie_id in enumerate(lines)}
BuildMappFromOne(ls) ==
    [ m \in { int(ls[i]) : i \in 1..Len(ls) } |->
        CHOOSE x \in 1..Len(ls) :
            /\ int(ls[x]) = m
            /\ \A i \in 1..Len(ls) : int(ls[i]) = m => i <= x ]
BuildMapp(ls) ==
    [ m \in { int(ls[i]) : i \in 1..Len(ls) } |->
        CHOOSE x \in 0..(Len(ls) - 1) :
            /\ int(ls[x + 1]) = m
            /\ \A i \in 1..Len(ls) : int(ls[i]) = m => i - 1 <= x ]

\* inversed_map = {indice: movie_id for movie_id, indice in mapp.items()}
BuildInversedMap(mp) ==
    [ i \in { mp[m] : m \in DOMAIN mp } |-> CHOOSE m \in DOMAIN mp : mp[m] = i ]

\* the embeddings table has one row per entry of the vocabulary the model
\* was built with
EmbeddingRows == vocab_pred

\* the cell that loads the embeddings and the mapping and builds the index
Viz ==
    /\ AtCell("viz")
    /\ reads' = reads \cup { ReadRec(viz_embeddings, Job("viz"), "run"),
                             ReadRec(viz_mapping, Job("viz"), "run"),
                             ReadRec(Join(dataset_path(cwd), "movies.csv"), Job("viz"), "run") }
    /\ LET ls == split(FileText(viz_mapping)) IN
       IF /\ Exists(viz_embeddings)
          /\ Exists(viz_mapping)
          /\ \A i \in 1..Len(ls) : IsInt(ls[i])
       THEN /\ pc' = pc + 1
            /\ mapp' = BuildMapp(ls)
            /\ inversed_map' = BuildInversedMap(BuildMapp(ls))
            /\ ntotal' = EmbeddingRows
            /\ UNCHANGED failed
       ELSE /\ failed' = Job("viz")
            /\ UNCHANGED << pc, mapp, inversed_map, ntotal >>
    /\ UNCHANGED << cwd, vocab, movies, knn, fsVars, metricsLog, defVars, runVars, trainVars >>

\* index.search(query, k) on a flat index of n vectors: for k <= n, the k
\* best indices, all different, with their scores in decreasing order
Scores == 0..1
SeqsOf(S, k) == [ 1..k -> S ]
IndexSearch(n, k) ==
    { [ I |-> I, D |-> D ] :
        I \in { x \in SeqsOf(0..(n - 1), k) : \A i, j \in 1..k : i # j => x[i] # x[j] },
        D \in { x \in SeqsOf(Scores, k) : \A i, j \in 1..k : i < j => x[i] >= x[j] } }

\* knn_query(index, query, ksearch), given what index.search returned
knn_query(I, D) == [ j \in 1..Min(Len(I), Len(D)) |-> << inversed_map[I[j]], D[j] >> ]

\* a call of knn_query once the visualization cell has been run
KnnQuery ==
    /\ Running
    /\ pc > CellIndex("viz")
    /\ \E k \in 1..ntotal : \E r \in IndexSearch(ntotal, k) :
         IF \A j \in 1..k : r.I[j] \in DOMAIN inversed_map
         THEN /\ knn' = [ k |-> k, I |-> r.I, D |-> r.D, result |-> knn_query(r.I, r.D) ]
              /\ UNCHANGED failed
         ELSE /\ failed' = Job("viz")
              /\ UNCHANGED knn
    /\ UNCHANGED << pc, cwd, vocab, movies, mapp, inversed_map, ntotal, fsVars, reads,
                    metricsLog, defVars, runVars, trainVars >>

(* --------------------------- specification ----------------------------- *)
Next ==
    \/ CellPaths
    \/ DefineBuild
    \/ RunBuild
    \/ BuildReadRatings
    \/ BuildWriteMapping
    \/ BuildWriteRecords
    \/ DefineTrain
    \/ DefinePredict
    \/ DefineEvaluate
    \/ DefinePipeline
    \/ PipelineNext
    \/ TrainOpen
    \/ TrainTick
    \/ TrainFinal
    \/ TrainExport
    \/ PredictRun
    \/ EvaluateRun
    \/ PipelineReturn
    \/ Finish
    \/ Raise
    \/ Viz

Spec == Init /\ [][Next]_vars

\* the training loop keeps stepping for as long as nothing raises
FairSpec == Spec /\ WF_vars(TrainTick)


(* ----------------- the visualization cell on its own ------------------ *)
\* the vocabularies the ratings file may give: distinct movie ids in any order
MovieLists ==
    UNION { { ms \in SeqsOf(Range(SampleIds), n) : \A i, j \in 1..n : i # j => ms[i] # ms[j] }
              : n \in 1..MaxVocab }

\* the state in which pipeline.run() returns after a run that stopped early
\* at step 6300, for any working directory and vocabulary
VizInit ==
    /\ pc = CellIndex("viz")
    /\ cwd \in Cwds
    /\ movies \in MovieLists
    /\ vocab = Len(movies)
    /\ mappingLines = vocab
    /\ dirs = { Resolve(cwd, SetupDirs[i]) : i \in 1..Len(SetupDirs) }
    /\ active = NoJob
    /\ phase = "idle"
    /\ started = << build(cwd).job >> \o pipeline
    /\ finished = started
    /\ failed = NoJob
    /\ pipeIdx = Len(pipeline)
    /\ defined = { DefinedBy(c) : c \in { "def_build", "def_train", "def_predict",
                                           "def_evaluate", "def_pipeline" } }
    /\ vocab_pred = vocab
    /\ vocab_loss = vocab
    /\ step = final_step
    /\ stopped_at = 6300
    /\ evals = << [step |-> 5100, val |-> 1], [step |-> 6300, val |-> 1],
                  [step |-> final_step, val |-> 0] >>
    /\ checkpoints = { save_checkpoints_steps * i : i \in 1..21 } \cup { final_step }
    /\ ckpt_state = 5100
    /\ exportIdx = Len(exporters)
    /\ exported = [ a \in Artifacts |-> 5100 ]
    /\ metricsLog = Ks
    /\ writes = { WriteRec(build(cwd).path_mapping, build(cwd).job),
                  WriteRec(build(cwd).path_train, build(cwd).job),
                  WriteRec(build(cwd).path_eval, build(cwd).job),
                  WriteRec(build(cwd).path_test, build(cwd).job),
                  WriteRec(train.path_model, train.job),
                  WriteRec(train.path_saved_model, train.job),
                  WriteRec(predict.path_predictions, predict.job) }
                \cup { WriteRec(Join(train.path_variables, variable_names[i]), train.job)
                         : i \in 1..Len(variable_names) }
    /\ reads = { ReadRec(build(cwd).path_ratings, build(cwd).job, "run"),
                 ReadRec(path_mapping, train.job, "define"),
                 ReadRec(train.train_input, train.job, "run"),
                 ReadRec(train.eval_input, train.job, "run"),
                 ReadRec(predict.input, predict.job, "run"),
                 ReadRec(predict.path_saved_model, predict.job, "run") }
               \cup UNION { { ReadRec(evaluate[i].path_predictions, evaluate[i].job, "run"),
                              ReadRec(evaluate[i].path_embeddings, evaluate[i].job, "run"),
                              ReadRec(evaluate[i].path_biases, evaluate[i].job, "run") }
                              : i \in 1..Len(evaluate) }
    /\ mapp = << >>
    /\ inversed_map = << >>
    /\ ntotal = 0
    /\ knn = NoQuery

VizNext == Viz \/ KnnQuery

VizSpec == VizInit /\ [][VizNext]_vars

(* ------------------------------- claims -------------------------------- *)
BuildJob == Job("build")
TrainJob == Job("train")
PredictJob == Job("predict")
VizJob == Job("viz")

StageRank(j) ==
    IF j.job = "build" THEN 1
    ELSE IF j.job = "train" THEN 2
    ELSE IF j.job = "predict" THEN 3
    ELSE 4

VizDone == \E r \in reads : r.by = VizJob

\* C1: the stages run strictly one after the other in the order data
\* preparation, training, prediction, evaluation, then the visualization
\* cell: a stage starts only when the previous one has finished, and at most
\* one stage is active at any time.
C1_Sequential ==
    /\ \A i, j \in 1..Len(started) : i < j => StageRank(started[i]) <= StageRank(started[j])
    /\ \A i \in 1..Len(started) :
         StageRank(started[i]) > 1 =>
            \E f \in Range(finished) : StageRank(f) = StageRank(started[i]) - 1
    /\ IsPrefix(finished, started)
    /\ Len(started) - Len(finished) <= 1
    /\ active # NoJob => Len(started) = Len(finished) + 1 /\ active = started[Len(started)]
    /\ (active = NoJob /\ failed = NoJob) => finished = started
    /\ VizDone => /\ active = NoJob
                  /\ { StageRank(f) : f \in Range(finished) } = 1..4
                  /\ Len(finished) = Len(started)

C1_Witness == pc = CellIndex("end") /\ VizDone /\ Len(finished) = 6

\* C2 as stated: constructing the jobs and the pipeline performs no step and
\* reads or writes no stage artifact.
C2_Original ==
    \A io \in reads \cup writes : io.during = "run"

\* C2 amended: constructing the jobs and the pipeline performs none of the
\* steps and writes nothing; the one artifact read at definition time is the
\* vocabulary mapping, read by the Trainer definition; a job's steps, reads
\* and writes happen only once its run() (or pipeline.run()) has been called.
C2_Lazy ==
    /\ \A w \in writes : w.during = "run"
    /\ \A r \in reads :
         r.during = "define" => r.path = Resolve(cwd, path_mapping) /\ r.by = TrainJob
    /\ \A j \in Range(started) \cup { io.by : io \in { x \in reads \cup writes : x.during = "run" } } :
         /\ j = BuildJob => pc >= CellIndex("run_build")
         /\ j # BuildJob => pc >= CellIndex("run_pipeline")
    /\ pc <= CellIndex("run_build") /\ active = NoJob /\ failed = NoJob => started = << >>

C2_Witness ==
    /\ pc = CellIndex("run_pipeline")
    /\ pipeIdx = 0
    /\ defined = { "build", "train", "predict", "evaluate", "pipeline" }
    /\ started = << BuildJob >>
    /\ \E r \in reads : r.during = "define"

\* C3: build is run before the other jobs are defined: the mapping file has
\* been completely written by build.run() when the Trainer definition reads
\* the vocabulary size, and AverageModel and Loss get that same size.
C3_VocabReady ==
    /\ \A r \in reads :
         (r.during = "define" /\ r.path = Resolve(cwd, path_mapping)) =>
            /\ mappingLines = vocab
            /\ BuildJob \in Range(finished)
            /\ \E w \in writes : w.path = r.path /\ w.by = BuildJob
    /\ (defined \ { "build" }) # {} => BuildJob \in Range(finished)
    /\ "train" \in defined => vocab_pred = vocab /\ vocab_loss = vocab_pred

C3_Witness == "train" \in defined /\ vocab_pred = MaxVocab /\ vocab_loss = MaxVocab


TrainFinished == TrainJob \in Range(finished)

\* C4: when the training stage finishes, the exported model is the
\* checkpoint with the maximum evaluated triplet_precision of the run, that
\* checkpoint still exists, and so does every evaluated checkpoint.
C4_BestExported ==
    TrainFinished =>
        /\ exported["saved_model"] \in checkpoints
        /\ \E i \in 1..Len(evals) :
              /\ evals[i].step = exported["saved_model"]
              /\ \A j \in 1..Len(evals) : evals[j].val <= evals[i].val
        /\ \A j \in 1..Len(evals) : evals[j].step \in checkpoints

C4_Witness ==
    /\ TrainFinished
    /\ Len(evals) >= 2
    /\ exported["saved_model"] < step
    /\ \E j \in 1..Len(evals) : evals[j].step = step /\ evals[j].step # exported["saved_model"]

\* the metric did not increase during the last w steps before step s
NoIncreaseDuringLast(evs, s, w) ==
    \E i \in 1..Len(evs) :
        /\ evs[i].step <= s - w
        /\ \A j \in 1..Len(evs) :
              (evs[j].step > evs[i].step /\ evs[j].step <= s) => evs[j].val <= evs[i].val

C5_StopRule ==
    /\ step <= 100000
    /\ stopped_at # -1 =>
         /\ stopped_at <= 100000
         /\ stopped_at < 100000 =>
              /\ stopped_at >= 5000
              /\ stopped_at % 300 = 0
              /\ NoIncreaseDuringLast(evals, stopped_at, 1000)

\* C5: the training loop always ends; it ends at step max_steps (100000) at
\* the latest, and earlier only at a multiple of 300 steps, once at least
\* min_steps (5000) steps have run and triplet_precision has not increased
\* during the last 1000 steps.
C5_Terminates ==
    /\ []C5_StopRule
    /\ (active = TrainJob /\ phase = "loop") ~> (stopped_at # -1 \/ failed # NoJob)

C5_Witness == stopped_at # -1 /\ stopped_at < max_steps /\ phase = "export"

ThreeArtifacts ==
    { Resolve(cwd, Join(path_variables, "biases")),
      Resolve(cwd, Join(path_variables, "embeddings")),
      Resolve(cwd, path_saved_model) }

\* C6: the biases, the embeddings and the saved model are written upon
\* completion of the training: none before the training loop has ended, and
\* all three exist once the training stage has finished.
C6_ArtifactsAtEnd ==
    /\ (\E w \in writes : w.path \in ThreeArtifacts) =>
          /\ stopped_at # -1
          /\ TrainJob \in Range(started)
          /\ ~ (active = TrainJob /\ phase \in { "start", "loop", "final" })
    /\ TrainFinished =>
          \A p \in ThreeArtifacts : \E w \in writes : w.path = p /\ w.by = TrainJob

C6_Witness ==
    /\ TrainFinished
    /\ Cardinality({ w \in writes : w.path \in ThreeArtifacts }) = 3

C7_Order ==
    << [job |-> "train", k |-> 0], [job |-> "predict", k |-> 0],
       [job |-> "evaluate", k |-> 10], [job |-> "evaluate", k |-> 20],
       [job |-> "evaluate", k |-> 50] >>

\* C7: pipeline.run() runs exactly train, predict, evaluate(10), evaluate(20),
\* evaluate(50), each once and in that order; build is not run by it; the
\* metrics are reported for k = 10, 20, 50 in that order.
C7_PipelineOrder ==
    LET ran  == SubSeq(started, 2, Len(started))
        done == SubSeq(finished, 2, Len(finished))
    IN  /\ Len(started) >= 1 => started[1] = BuildJob
        /\ pc < CellIndex("run_pipeline") => Len(started) <= 1
        /\ IsPrefix(ran, C7_Order)
        /\ IsPrefix(metricsLog, << 10, 20, 50 >>)
        /\ pc > CellIndex("run_pipeline") =>
             /\ ran = C7_Order
             /\ done = C7_Order
             /\ metricsLog = << 10, 20, 50 >>

C7_Witness == pc = CellIndex("viz") /\ metricsLog = << 10, 20, 50 >> /\ Len(finished) = 6

\* the stage the claim names as the writer of each artifact
ClaimedWriter(p) ==
    IF p \in { Resolve(cwd, path_mapping), Resolve(cwd, path_train),
               Resolve(cwd, path_eval), Resolve(cwd, path_test) } THEN BuildJob
    ELSE IF p = Resolve(cwd, path_predictions) THEN PredictJob
    ELSE TrainJob

\* C8: every artifact a stage (or the visualization cell) reads was written
\* by the stage the hand-off names, and that stage had finished.
C8_ReadsAfterWrites ==
    \A r \in reads :
        r.path \notin Inputs =>
            \E w \in writes :
                /\ w.path = r.path
                /\ w.by = ClaimedWriter(r.path)
                /\ w.by # r.by
                /\ w.by \in Range(finished)

C8_Witness ==
    /\ pc = CellIndex("end")
    /\ \E r \in reads : r.by = VizJob /\ r.path = Resolve(cwd, path_mapping)
    /\ \E r \in reads : r.by = VizJob /\ r.path = Resolve(cwd, Join(path_variables, "embeddings"))
    /\ \E r \in reads : r.by.job = "evaluate" /\ r.path = Resolve(cwd, path_predictions)

\* C9: nothing is caught: when a stage raises, the error is that stage's, and
\* from then on no stage starts or finishes, no cell runs and nothing more is
\* read, written or reported.
C9_NoRecovery ==
    [][ /\ failed # NoJob =>
             /\ failed' = failed
             /\ started' = started
             /\ finished' = finished
             /\ writes' = writes
             /\ reads' = reads
             /\ metricsLog' = metricsLog
             /\ pc' = pc
        /\ (failed = NoJob /\ failed' # NoJob) =>
             /\ failed' = active
             /\ active' = NoJob
             /\ started' = started
             /\ writes' = writes ]_vars

C9_Witness ==
    /\ failed = TrainJob
    /\ pipeIdx = 1
    /\ phase = "loop"
    /\ Len(started) = 2
    /\ \A w \in writes : w.by \in { BuildJob, TrainJob }

OutputPaths ==
    { path_model, path_variables, path_predictions, path_saved_model,
      path_mapping, path_train, path_eval, path_test }

\* C10: the eight output paths are pairwise distinct and lie under path_root,
\* the ratings file lies outside it; every written path has one writing
\* stage, no stage writes over or inside another stage's artifact, and the
\* ratings file is never written.
C10_PathsApart ==
    LET root == Resolve(cwd, path_root) IN
    /\ Cardinality({ Resolve(cwd, p) : p \in OutputPaths }) = 8
    /\ \A p \in OutputPaths : IsPrefix(root, Resolve(cwd, p)) /\ Resolve(cwd, p) # root
    /\ ~ IsPrefix(root, Resolve(cwd, path_ratings(cwd)))
    /\ \A w1, w2 \in writes :
          /\ w1.path = w2.path => w1.by = w2.by
          /\ w1.by # w2.by => ~ IsPrefix(w1.path, w2.path)
    /\ \A w \in writes :
          /\ w.path # Resolve(cwd, path_ratings(cwd))
          /\ IsPrefix(root, w.path)

C10_Witness ==
    /\ pc = CellIndex("end")
    /\ Cardinality(writes) = 9
    /\ Cardinality({ w.by : w \in writes }) = 3


VizLoaded == pc > CellIndex("viz")

====
